---------------------------- MODULE Spec2Model ----------------------------
(***************************************************************************)
(* Model of mpv-mixtape (src/main.rs): one run of `main`, from the argument*)
(* vector to the launch of the player, with the file system, the external  *)
(* probe (ffprobe), the random source and the player as the environment.   *)
(*                                                                         *)
(* A string is a sequence of bytes; a byte is written as a one-character   *)
(* string ("a", ",", "%"), and the bytes that are not ASCII as "xC3",      *)
(* "xA9" (the two bytes of U+00E9), "xFF" (a byte that occurs in no UTF-8  *)
(* text) and "xEF", "xBF", "xBD" (the three bytes of U+FFFD).              *)
(***************************************************************************)
EXTENDS Integers, Sequences, FiniteSets, TLC

\* ------------------------------------------------------------------ bounds

\* The most entries the directory holds.
MaxDirEntries == 2

\* The most bytes of the free part of a path handed to path_to_edl alone.
MaxTailLen == 2

\* ------------------------------------------------------- program constants

\* main.rs:73, the duration used when the probe fails.
FallbackDuration == 15

\* ------------------------------------------------------------ text helpers

Digits == <<"0", "1", "2", "3", "4", "5", "6", "7", "8", "9">>

IsDigit(b) == \E k \in 1..10 : Digits[k] = b

DigitVal(b) == (CHOOSE k \in 1..10 : Digits[k] = b) - 1

AllDigits(s) == \A k \in 1..Len(s) : IsDigit(s[k])

\* The value of a non-empty run of decimal digits.
RECURSIVE DecValue(_)
DecValue(s) ==
    IF s = <<>> THEN 0
    ELSE 10 * DecValue(SubSeq(s, 1, Len(s) - 1)) + DigitVal(s[Len(s)])

\* Display of an unsigned integer ("{}"): its decimal digits, no padding.
RECURSIVE FmtU64(_)
FmtU64(n) ==
    IF n < 10 THEN <<Digits[n + 1]>>
    ELSE FmtU64(n \div 10) \o <<Digits[(n % 10) + 1]>>

\* str::parse::<u64>: an optional "+", then one digit or more, nothing else.
ParseU64(s) ==
    LET body == IF s # <<>> /\ s[1] = "+" THEN Tail(s) ELSE s
    IN  IF body # <<>> /\ AllDigits(body)
        THEN [ok |-> TRUE, val |-> DecValue(body)]
        ELSE [ok |-> FALSE, val |-> 0]

IsSpace(b) == b \in {" ", "\n", "\t", "\r"}

\* str::trim: white space removed at both ends.
RECURSIVE TrimStart(_)
TrimStart(s) ==
    IF s # <<>> /\ IsSpace(s[1]) THEN TrimStart(Tail(s)) ELSE s

RECURSIVE TrimEnd(_)
TrimEnd(s) ==
    IF s # <<>> /\ IsSpace(s[Len(s)])
    THEN TrimEnd(SubSeq(s, 1, Len(s) - 1)) ELSE s

Trim(s) == TrimEnd(TrimStart(s))

\* The place of the first b in s, 0 when there is none.
IndexOf(s, b) ==
    IF \E k \in 1..Len(s) : s[k] = b
    THEN CHOOSE k \in 1..Len(s) : s[k] = b /\ \A j \in 1..(k - 1) : s[j] # b
    ELSE 0

\* The place of the last b in s, 0 when there is none.
LastIndexOf(s, b) ==
    IF \E k \in 1..Len(s) : s[k] = b
    THEN CHOOSE k \in 1..Len(s) :
            s[k] = b /\ \A j \in (k + 1)..Len(s) : s[j] # b
    ELSE 0

\* str::parse::<f64>, for the decimal forms [+-]digits[.digits], [+-].digits
\* and "nan": the sign, the integer part and whether the number is NaN.  No
\* white space is accepted and the empty string is an error.
ParseF64(s) ==
    LET neg   == s # <<>> /\ s[1] = "-"
        body  == IF s # <<>> /\ s[1] \in {"-", "+"} THEN Tail(s) ELSE s
        dot   == IndexOf(body, ".")
        ip    == IF dot = 0 THEN body ELSE SubSeq(body, 1, dot - 1)
        fp    == IF dot = 0 THEN <<>> ELSE SubSeq(body, dot + 1, Len(body))
        bad   == [ok |-> FALSE, nan |-> FALSE, neg |-> FALSE, int |-> 0]
    IN  IF body \in {<<"n", "a", "n">>, <<"N", "a", "N">>}
        THEN [ok |-> TRUE, nan |-> TRUE, neg |-> neg, int |-> 0]
        ELSE IF AllDigits(ip) /\ AllDigits(fp) /\ Len(ip) + Len(fp) > 0
        THEN [ok |-> TRUE, nan |-> FALSE, neg |-> neg, int |-> DecValue(ip)]
        ELSE bad

\* `d as u64`: truncation toward zero; NaN and the negative numbers give 0.
AsU64(f) == IF f.nan \/ f.neg THEN 0 ELSE f.int


\* ------------------------------------------------------------------- paths

NonAscii == {"xC3", "xA9", "xFF", "xEF", "xBF", "xBD"}

\* Whether s is UTF-8 text, for the bytes of this model: an ASCII byte, the
\* pair xC3 xA9 and the triple xEF xBF xBD are characters, everything else
\* is ill-formed.
RECURSIVE Utf8Valid(_)
Utf8Valid(s) ==
    IF s = <<>> THEN TRUE
    ELSE IF s[1] \notin NonAscii THEN Utf8Valid(Tail(s))
    ELSE IF Len(s) >= 2 /\ s[1] = "xC3" /\ s[2] = "xA9"
    THEN Utf8Valid(SubSeq(s, 3, Len(s)))
    ELSE IF Len(s) >= 3 /\ s[1] = "xEF" /\ s[2] = "xBF" /\ s[3] = "xBD"
    THEN Utf8Valid(SubSeq(s, 4, Len(s)))
    ELSE FALSE

\* Path::to_string_lossy (main.rs:87): the text itself when it is UTF-8, and
\* otherwise the text with U+FFFD (xEF xBF xBD) in place of each ill-formed
\* byte.
RECURSIVE to_string_lossy(_)
to_string_lossy(s) ==
    IF s = <<>> THEN <<>>
    ELSE IF s[1] \notin NonAscii THEN <<s[1]>> \o to_string_lossy(Tail(s))
    ELSE IF Len(s) >= 2 /\ s[1] = "xC3" /\ s[2] = "xA9"
    THEN <<"xC3", "xA9">> \o to_string_lossy(SubSeq(s, 3, Len(s)))
    ELSE IF Len(s) >= 3 /\ s[1] = "xEF" /\ s[2] = "xBF" /\ s[3] = "xBD"
    THEN <<"xEF", "xBF", "xBD">> \o to_string_lossy(SubSeq(s, 4, Len(s)))
    ELSE <<"xEF", "xBF", "xBD">> \o to_string_lossy(Tail(s))

\* DirEntry::path (main.rs:29): the directory joined with the entry's name.
EntryPath(dir, name) ==
    IF dir # <<>> /\ dir[Len(dir)] = "/" THEN dir \o name
    ELSE dir \o <<"/">> \o name

\* Path::file_name: what follows the last "/".
FileName(path) == SubSeq(path, LastIndexOf(path, "/") + 1, Len(path))

\* Path::extension (main.rs:33): what follows the last "." of the file name;
\* none when the name has no "." or only the one it starts with.
Extension(path) ==
    LET name == FileName(path)
        dot  == LastIndexOf(name, ".")
    IN  IF dot <= 1 \/ name = <<".", ".">>
        THEN [some |-> FALSE, val |-> <<>>]
        ELSE [some |-> TRUE, val |-> SubSeq(name, dot + 1, Len(name))]

\* main.rs:23
video_extensions ==
    << <<"m", "p", "4">>, <<"m", "k", "v">>,
       <<"a", "v", "i">>, <<"m", "o", "v">> >>

\* The closure of filter_map (main.rs:27-39) on one item of the directory
\* iterator: "skip", "keep", or "panic" when one of the two unwrap calls of
\* line 33 meets None (a name without extension, an extension that is not
\* UTF-8).  `any` evaluates the extension for the first allowed extension
\* already, and && does not evaluate it at all for what is no regular file.
FilterEntry(dir, e) ==
    LET path == EntryPath(dir, e.name)
        ext  == Extension(path)
    IN  IF e.kind = "err" THEN "skip"
        ELSE IF e.kind # "file" THEN "skip"
        ELSE IF ~ext.some THEN "panic"
        ELSE IF ~Utf8Valid(ext.val) THEN "panic"
        ELSE IF \E k \in 1..Len(video_extensions) :
                    ext.val = video_extensions[k]
        THEN "keep"
        ELSE "skip"

\* The characters of a UTF-8 text: its bytes that continue no character.
CharCount(s) ==
    Cardinality({k \in 1..Len(s) : s[k] \notin {"xA9", "xBF", "xBD"}})

\* path_to_edl with the length counted in characters, not in bytes.
path_to_edl_chars(path) ==
    <<"%">> \o FmtU64(CharCount(path)) \o <<"%">> \o path

\* path_to_edl (main.rs:108-110): "%", the byte length of the path, "%", the
\* path.
path_to_edl(path) == <<"%">> \o FmtU64(Len(path)) \o <<"%">> \o path

\* The entry line of main.rs:84-90, without its line feed.
EntryLine(path, start_time, clip) ==
    path_to_edl(to_string_lossy(path)) \o <<",">> \o FmtU64(start_time)
        \o <<",">> \o FmtU64(clip)

\* main.rs:65
HeaderLine ==
    <<"#", " ", "m", "p", "v", " ", "E", "D", "L", " ", "v", "0">>

\* u64::saturating_sub (main.rs:78)
saturating_sub(a, b) == IF a >= b THEN a - b ELSE 0

\* The range without the clip length taken off the duration.
StartRange_whole(duration_secs, clip) == 0..duration_secs

\* The range gen_range draws from (main.rs:79): 0..=max_start_time.
StartRange(duration_secs, clip) == 0..saturating_sub(duration_secs, clip)


\* ------------------------------------------------------------- environment

Prog == <<"m", "i", "x">>

VideoDir == <<"/", "v">>

\* The argument vectors of a run (env::args, main.rs:12): the program name
\* alone, no clip length, a clip length that is no number, 0, 1 and 15.
ArgVectors ==
    { <<Prog>>,
      <<Prog, VideoDir>>,
      <<Prog, VideoDir, <<"x">> >>,
      <<Prog, VideoDir, <<"0">> >>,
      <<Prog, VideoDir, <<"1">> >>,
      <<Prog, VideoDir, <<"1", "5">> >> }

\* What the directory iterator may yield: regular files with an allowed
\* extension (one name holding "," and "%" and a digit, one whose stem is not
\* UTF-8), a directory with an allowed extension, regular files with another
\* extension, with an upper-case one, with none, with only a leading ".",
\* with an extension that is not UTF-8, and an item that is an I/O error.
DirUniverse ==
    { [name |-> <<"a", ".", "m", "p", "4">>, kind |-> "file"],
      [name |-> <<"b", ",", "%", "1", ".", "m", "k", "v">>, kind |-> "file"],
      [name |-> <<"xFF", ".", "m", "o", "v">>, kind |-> "file"],
      [name |-> <<"d", ".", "a", "v", "i">>, kind |-> "dir"],
      [name |-> <<"n", ".", "t", "x", "t">>, kind |-> "file"],
      [name |-> <<"C", ".", "M", "P", "4">>, kind |-> "file"],
      [name |-> <<"R", "E", "A", "D", "M", "E">>, kind |-> "file"],
      [name |-> <<".", "m", "p", "4">>, kind |-> "file"],
      [name |-> <<"e", ".", "xFF">>, kind |-> "file"],
      [name |-> <<>>, kind |-> "err"] }

Listings == {l \in SUBSET DirUniverse : Cardinality(l) <= MaxDirEntries}

\* What one run of the probe may do (Command::output, main.rs:113-121): it
\* cannot be spawned, or it exits with or without success having printed
\* stdout: a duration with white space around it, a negative one, "nan",
\* "N/A", nothing.
ProbeOutcomes ==
    { [spawned |-> FALSE, success |-> FALSE, stdout |-> <<>>],
      [spawned |-> TRUE, success |-> FALSE, stdout |-> <<>>],
      [spawned |-> TRUE, success |-> FALSE,
       stdout |-> <<"2", ".", "9", "\n">>],
      [spawned |-> TRUE, success |-> TRUE,
       stdout |-> <<" ", "2", ".", "9", "\n">>],
      [spawned |-> TRUE, success |-> TRUE,
       stdout |-> <<"-", "0", ".", "5", "\n">>],
      [spawned |-> TRUE, success |-> TRUE,
       stdout |-> <<"n", "a", "n", "\n">>],
      [spawned |-> TRUE, success |-> TRUE,
       stdout |-> <<"N", "/", "A", "\n">>],
      [spawned |-> TRUE, success |-> TRUE, stdout |-> <<>>] }

\* The content of /tmp/playlist.edl a run may find: no file, or the playlist
\* of an earlier run.
OldPlaylist ==
    [exists |-> TRUE,
     lines |-> << [text |-> HeaderLine, complete |-> TRUE],
                  [text |-> <<"%", "1", "%", "o", ",", "0", ",", "5">>,
                   complete |-> TRUE] >>]

NoFile == [exists |-> FALSE, lines |-> <<>>]

\* The orders of the elements of a finite set.
Orders(S) ==
    {f \in [1..Cardinality(S) -> S] :
        \A a, b \in 1..Cardinality(S) : a # b => f[a] # f[b]}

Range(f) == {f[k] : k \in DOMAIN f}

\* get_video_duration (main.rs:112-154) on one outcome of the probe: the
\* cause of the failure ("spawn", "status", "parse") or "ok" and the seconds.
get_video_duration(o) ==
    LET f == ParseF64(Trim(o.stdout))
    IN  IF ~o.spawned THEN [kind |-> "spawn", secs |-> 0]
        ELSE IF ~o.success THEN [kind |-> "status", secs |-> 0]
        ELSE IF ~f.ok THEN [kind |-> "parse", secs |-> 0]
        ELSE [kind |-> "ok", secs |-> AsU64(f)]

\* The match with a fallback of no seconds at all.
ResolvedDuration_zero(r) == IF r.kind = "ok" THEN r.secs ELSE 0

\* The match of main.rs:69-75: the probed seconds, or the fallback.
ResolvedDuration(r) == IF r.kind = "ok" THEN r.secs ELSE FallbackDuration


\* ------------------------------------------------------------------- state

VARIABLES
    args,           \* env::args (main.rs:12)
    dir_readable,   \* whether fs::read_dir succeeds on the directory
    listing,        \* what the directory iterator yields
    edl_file,       \* the content of /tmp/playlist.edl
    pc,             \* the place of main
    exit,           \* "running", or how main ended: "ok", "err", "panic"
    clip_duration,  \* main.rs:19
    videos,         \* main.rs:26
    idx,            \* the place of the loop of main.rs:67 in videos
    probe,          \* the result of get_video_duration in this iteration
    duration_secs,  \* main.rs:69
    entries,        \* history: path, duration, failure and start of each entry written
    log,            \* what main has printed, by kind of message
    opens,          \* history: the times the output path was opened
    probes,         \* history: the times the probe was invoked
    launches,       \* history: the times the player was invoked
    player,         \* how the start of the player went: "none", "started", "error"
    p_in,           \* a path string handed to path_to_edl alone
    p_line,         \* the entry line made of it
    p_pc            \* the place of that encoding

vars ==
    <<args, dir_readable, listing, edl_file, pc, exit, clip_duration, videos,
      idx, probe, duration_secs, entries, log, opens, probes, launches, player,
      p_in, p_line, p_pc>>

mainVars ==
    <<args, dir_readable, listing, edl_file, pc, exit, clip_duration, videos,
      idx, probe, duration_secs, entries, log, opens, probes, launches,
      player>>

edlVars == <<p_in, p_line, p_pc>>

NoProbe == [kind |-> "none", secs |-> 0]

Init ==
    /\ args \in ArgVectors
    /\ dir_readable \in BOOLEAN
    /\ listing \in (IF dir_readable THEN Listings ELSE {{}})
    /\ edl_file \in {NoFile, OldPlaylist}
    /\ pc = "args"
    /\ exit = "running"
    /\ clip_duration = 0
    /\ videos = <<>>
    /\ idx = 1
    /\ probe = NoProbe
    /\ duration_secs = 0
    /\ entries = <<>>
    /\ log = {}
    /\ opens = 0
    /\ probes = 0
    /\ launches = 0
    /\ player = "none"
    /\ p_in = <<>>
    /\ p_line = <<>>
    /\ p_pc = "idle"

\* main returns or panics: nothing of the run is left to do.
End(how) ==
    /\ pc' = "done"
    /\ exit' = how

\* main.rs:12-21: the usage message when an argument is missing, the panic
\* of expect when the clip length is no u64.
ParseArgs ==
    /\ pc = "args"
    /\ IF Len(args) < 3
       THEN /\ log' = log \cup {"usage"}
            /\ End("ok")
            /\ UNCHANGED clip_duration
       ELSE LET r == ParseU64(args[3])
            IN  IF r.ok
                THEN /\ clip_duration' = r.val
                     /\ pc' = "read_dir"
                     /\ UNCHANGED <<exit, log>>
                ELSE /\ End("panic")
                     /\ UNCHANGED <<clip_duration, log>>
    /\ UNCHANGED <<args, dir_readable, listing, edl_file, videos, idx, probe,
                   duration_secs, entries, opens, probes, launches, player,
                   edlVars>>

\* The paths the filter of main.rs:27-39 keeps.
Candidates ==
    {EntryPath(args[2], e.name) :
        e \in {x \in listing : FilterEntry(args[2], x) = "keep"}}

\* main.rs:26-40: read_dir fails and `?` returns the error, or an unwrap of
\* the filter panics, or the kept paths are collected in the directory's
\* order, which is any order.
Discover ==
    /\ pc = "read_dir"
    /\ IF ~dir_readable
       THEN /\ End("err")
            /\ UNCHANGED videos
       ELSE IF \E e \in listing : FilterEntry(args[2], e) = "panic"
       THEN /\ End("panic")
            /\ UNCHANGED videos
       ELSE /\ videos' \in Orders(Candidates)
            /\ pc' = "check_empty"
            /\ UNCHANGED exit
    /\ UNCHANGED <<args, dir_readable, listing, edl_file, clip_duration, idx,
                   probe, duration_secs, entries, log, opens, probes,
                   launches, player, edlVars>>

\* The check of the empty list without its return.
CheckEmpty_noreturn ==
    /\ pc = "check_empty"
    /\ IF videos = <<>>
       THEN log' = log \cup {"no_videos"}
       ELSE UNCHANGED log
    /\ pc' = "shuffle"
    /\ UNCHANGED <<args, dir_readable, listing, edl_file, exit, clip_duration,
                   videos, idx, probe, duration_secs, entries, opens, probes,
                   launches, player, edlVars>>

\* main.rs:42-45
CheckEmpty ==
    /\ pc = "check_empty"
    /\ IF videos = <<>>
       THEN /\ log' = log \cup {"no_videos"}
            /\ End("ok")
       ELSE /\ pc' = "shuffle"
            /\ UNCHANGED <<exit, log>>
    /\ UNCHANGED <<args, dir_readable, listing, edl_file, clip_duration,
                   videos, idx, probe, duration_secs, entries, opens, probes,
                   launches, player, edlVars>>

\* The results of SliceRandom::shuffle on v: its permutations.
Shuffles(v) == {w \in Orders(Range(v)) : Len(w) = Len(v)}

\* main.rs:47-55
Shuffle ==
    /\ pc = "shuffle"
    /\ videos' \in Shuffles(videos)
    /\ log' = log \cup {"found"}
    /\ pc' = "open"
    /\ UNCHANGED <<args, dir_readable, listing, edl_file, exit, clip_duration,
                   idx, probe, duration_secs, entries, opens, probes,
                   launches, player, edlVars>>

\* The open without truncate(true): what the file held stays in it.
OpenEdl_keep ==
    /\ pc = "open"
    /\ opens' = opens + 1
    /\ \E ok \in BOOLEAN :
         IF ok
         THEN /\ edl_file' = [edl_file EXCEPT !.exists = TRUE]
              /\ pc' = "header"
              /\ UNCHANGED exit
         ELSE /\ End("err")
              /\ UNCHANGED edl_file
    /\ UNCHANGED <<args, dir_readable, listing, clip_duration, videos, idx,
                   probe, duration_secs, entries, log, probes, launches,
                   player, edlVars>>

\* main.rs:58-63: the output path is created and emptied, or the open fails
\* and `?` returns the error with the path as it was.
OpenEdl ==
    /\ pc = "open"
    /\ opens' = opens + 1
    /\ \E ok \in BOOLEAN :
         IF ok
         THEN /\ edl_file' = [exists |-> TRUE, lines |-> <<>>]
              /\ pc' = "header"
              /\ UNCHANGED exit
         ELSE /\ End("err")
              /\ UNCHANGED edl_file
    /\ UNCHANGED <<args, dir_readable, listing, clip_duration, videos, idx,
                   probe, duration_secs, entries, log, probes, launches,
                   player, edlVars>>

\* The file after a writeln of `text` that succeeds.
Appended(text) ==
    [edl_file EXCEPT !.lines = Append(@, [text |-> text, complete |-> TRUE])]

\* The files a writeln that fails may leave: write_fmt writes a line piece by
\* piece, so nothing of it is there, or its piece `first` without line feed.
Torn(first) ==
    { edl_file,
      [edl_file EXCEPT !.lines = Append(@, [text |-> first, complete |-> FALSE])] }

\* The header written with its result dropped: a failed write goes on.
WriteHeader_unchecked ==
    /\ pc = "header"
    /\ edl_file' \in {Appended(HeaderLine)} \cup Torn(<<"#">>)
    /\ pc' = IF videos = <<>> THEN "launch" ELSE "probe"
    /\ UNCHANGED <<args, dir_readable, listing, exit, clip_duration, videos,
                   idx, probe, duration_secs, entries, log, opens, probes,
                   launches, player, edlVars>>

\* main.rs:65
WriteHeader ==
    /\ pc = "header"
    /\ \/ /\ edl_file' = Appended(HeaderLine)
          /\ pc' = IF videos = <<>> THEN "launch" ELSE "probe"
          /\ UNCHANGED exit
       \/ /\ edl_file' \in Torn(<<"#">>)
          /\ End("err")
    /\ UNCHANGED <<args, dir_readable, listing, clip_duration, videos, idx,
                   probe, duration_secs, entries, log, opens, probes,
                   launches, player, edlVars>>

\* main.rs:69-75: the probe of videos[idx], and the fallback with its message
\* when it fails.
ProbeDuration ==
    /\ pc = "probe"
    /\ \E o \in ProbeOutcomes :
         LET r == get_video_duration(o)
         IN  /\ probe' = r
             /\ duration_secs' = ResolvedDuration(r)
             /\ log' = IF r.kind = "ok" THEN log ELSE log \cup {"no_duration"}
    /\ probes' = probes + 1
    /\ pc' = "write"
    /\ UNCHANGED <<args, dir_readable, listing, edl_file, exit, clip_duration,
                   videos, idx, entries, opens, launches, player, edlVars>>

\* main.rs:77-91: the start is drawn, the line is written and the loop goes
\* on to the next video or ends; a failed write returns the error.
WriteEntry ==
    /\ pc = "write"
    /\ \E start_time \in StartRange(duration_secs, clip_duration) :
         LET line == EntryLine(videos[idx], start_time, clip_duration)
         IN  \/ /\ edl_file' = Appended(line)
                /\ entries' = Append(entries,
                      [path |-> videos[idx], duration |-> duration_secs,
                       failed |-> probe.kind # "ok", start |-> start_time])
                /\ idx' = idx + 1
                /\ pc' = IF idx = Len(videos) THEN "launch" ELSE "probe"
                /\ UNCHANGED exit
             \/ /\ edl_file' \in Torn(path_to_edl(to_string_lossy(videos[idx])))
                /\ End("err")
                /\ UNCHANGED <<entries, idx>>
    /\ probe' = NoProbe
    /\ duration_secs' = 0
    /\ UNCHANGED <<args, dir_readable, listing, clip_duration, videos, log,
                   opens, probes, launches, player, edlVars>>

\* The start of the player with `?`: its error is the error of main.
LaunchPlayer_propagate ==
    /\ pc = "launch"
    /\ launches' = launches + 1
    /\ \E started \in BOOLEAN :
         /\ player' = IF started THEN "started" ELSE "error"
         /\ log' = log \cup {"generated"}
         /\ End(IF started THEN "ok" ELSE "err")
    /\ UNCHANGED <<args, dir_readable, listing, edl_file, clip_duration,
                   videos, idx, probe, duration_secs, entries, opens, probes,
                   edlVars>>

\* main.rs:93-103: the player is started on the playlist; an error of the
\* start is printed, and main returns Ok either way.
LaunchPlayer ==
    /\ pc = "launch"
    /\ launches' = launches + 1
    /\ \E started \in BOOLEAN :
         /\ player' = IF started THEN "started" ELSE "error"
         /\ log' = IF started THEN log \cup {"generated"}
                   ELSE log \cup {"generated", "launch_error"}
    /\ End("ok")
    /\ UNCHANGED <<args, dir_readable, listing, edl_file, clip_duration,
                   videos, idx, probe, duration_secs, entries, opens, probes,
                   edlVars>>

Next ==
    \/ ParseArgs
    \/ Discover
    \/ CheckEmpty
    \/ Shuffle
    \/ OpenEdl
    \/ WriteHeader
    \/ ProbeDuration
    \/ WriteEntry
    \/ LaunchPlayer

Spec == Init /\ [][Next]_vars


\* ------------------------------------------- path_to_edl on its own inputs

\* The texts of at most n characters over the characters "," "%" "1" "a" "/"
\* and U+00E9, which is two bytes long.
PathChars == { <<",">>, <<"%">>, <<"1">>, <<"a">>, <<"/">>, <<"xC3", "xA9">> }

RECURSIVE Texts(_)
Texts(n) ==
    IF n = 0 THEN { <<>> }
    ELSE Texts(n - 1) \cup {t \o c : t \in Texts(n - 1), c \in PathChars}

\* The path strings tried: nothing or a directory of ten bytes, then a text.
PathStrings ==
    {b \o t : b \in { <<>>, <<"/", "t", "m", "p", "/", "v", "i", "d", "s", "/">> },
              t \in Texts(MaxTailLen)}

InitEdl ==
    /\ args = <<Prog>>
    /\ dir_readable = TRUE
    /\ listing = {}
    /\ edl_file = NoFile
    /\ pc = "done"
    /\ exit = "ok"
    /\ clip_duration = 0
    /\ videos = <<>>
    /\ idx = 1
    /\ probe = NoProbe
    /\ duration_secs = 0
    /\ entries = <<>>
    /\ log = {}
    /\ opens = 0
    /\ probes = 0
    /\ launches = 0
    /\ player = "none"
    /\ p_in \in [path : PathStrings, start : {0, 7, 12}, clip : {1, 15}]
    /\ p_line = <<>>
    /\ p_pc = "encode"

\* The entry line of main.rs:84-90 for the path string, start and clip length
\* of p_in.
EncodeEntry ==
    /\ p_pc = "encode"
    /\ p_line' = EntryLine(p_in.path, p_in.start, p_in.clip)
    /\ p_pc' = "encoded"
    /\ UNCHANGED <<p_in, mainVars>>

NextEdl == EncodeEntry

SpecEdl == InitEdl /\ [][NextEdl]_vars

\* ------------------------------------------------ reading a playlist back

\* An entry line read as the EDL syntax defines it: "%", the decimal length
\* up to the next "%", that many bytes of path, then ",", the start, ",", the
\* length.
ParseEntryLine(line) ==
    LET bad    == [ok |-> FALSE, path |-> <<>>, start |-> 0, length |-> 0]
        rest   == Tail(line)
        j      == IndexOf(rest, "%")
        num    == SubSeq(rest, 1, j - 1)
        n      == DecValue(num)
        body   == SubSeq(rest, j + 1, Len(rest))
        after  == SubSeq(body, n + 1, Len(body))
        fields == Tail(after)
        k      == IndexOf(fields, ",")
        st     == SubSeq(fields, 1, k - 1)
        ln     == SubSeq(fields, k + 1, Len(fields))
    IN  IF line = <<>> \/ line[1] # "%" THEN bad
        ELSE IF j <= 1 \/ ~AllDigits(num) THEN bad
        ELSE IF Len(body) < n THEN bad
        ELSE IF after = <<>> \/ after[1] # "," THEN bad
        ELSE IF k <= 1 \/ ~AllDigits(st) \/ ln = <<>> \/ ~AllDigits(ln) THEN bad
        ELSE [ok |-> TRUE, path |-> SubSeq(body, 1, n),
              start |-> DecValue(st), length |-> DecValue(ln)]

\* C6: the line made of a path string P, a start and a clip length begins
\* with "%", the decimal byte length of P and "%", and read back by the
\* length-prefix rule it gives exactly P, the start and the clip length, also
\* when P holds ",", "%" or digits.
C6_RoundTrip ==
    p_pc = "encoded" =>
        /\ SubSeq(p_line, 1, Len(FmtU64(Len(p_in.path))) + 2)
              = <<"%">> \o FmtU64(Len(p_in.path)) \o <<"%">>
        /\ ParseEntryLine(p_line)
              = [ok |-> TRUE, path |-> p_in.path, start |-> p_in.start,
                 length |-> p_in.clip]

\* A path of more than nine bytes that holds ",", "%" and a character of two
\* bytes has been encoded.
C6_Witness ==
    /\ p_pc = "encoded"
    /\ Len(p_in.path) > 9
    /\ \E a, b \in 1..Len(p_in.path) :
          /\ p_in.path[a] \in {",", "%"}
          /\ p_in.path[b] = "xC3"


\* ------------------------------------------------------------------ claims

Max(a, b) == IF a >= b THEN a ELSE b

\* The lines of the output file after its first, read back.
WrittenEntry(k) == ParseEntryLine(edl_file.lines[k + 1].text)

\* The output file holds the header and then m whole entry lines, no more.
HoldsHeaderAnd(m) ==
    /\ edl_file.exists
    /\ Len(edl_file.lines) = m + 1
    /\ edl_file.lines[1] = [text |-> HeaderLine, complete |-> TRUE]
    /\ \A k \in 1..m : edl_file.lines[k + 1].complete /\ WrittenEntry(k).ok

\* The clip-length argument is there and is a number.
ClipGiven == Len(args) >= 3 /\ ParseU64(args[3]).ok

\* C1: with a clip length c > 0, the start written on every entry line is
\* at least 0 and at most max(d - c, 0), d being the duration resolved for
\* the file (the fallback when its probe failed), and is 0 when d <= c.
C1_StartInBounds ==
    clip_duration > 0 =>
        \A k \in 1..Len(entries) :
            LET d == entries[k].duration
                st == WrittenEntry(k).start
            IN  /\ WrittenEntry(k).ok
                /\ st = entries[k].start
                /\ entries[k].failed => d = FallbackDuration
                /\ 0 <= st
                /\ st <= Max(d - clip_duration, 0)
                /\ d <= clip_duration => st = 0

\* Two lines are written with c > 0: one of a probed file longer than the
\* clip, started as late as it may be, one of a file no longer than the clip.
C1_Witness ==
    /\ clip_duration > 0
    /\ \E a, b \in 1..Len(entries) :
          /\ ~entries[a].failed
          /\ entries[a].duration > clip_duration
          /\ WrittenEntry(a).start = entries[a].duration - clip_duration
          /\ entries[b].duration <= clip_duration
          /\ WrittenEntry(b).start = 0

\* C2: a probe that fails, whatever the cause, leaves the run going: the
\* step after it is the sampling of the same file against a duration of
\* exactly 15 seconds, its line has a start of at most max(15 - c, 0), which
\* is 0 when c >= 15, and a run that reaches the player has written every
\* file whichever probes failed.
C2_ProbeFailureRecovered ==
    /\ [](/\ (pc = "write" /\ probe.kind \in {"spawn", "status", "parse"})
                => duration_secs = 15 /\ exit = "running"
          /\ \A k \in 1..Len(entries) :
                entries[k].failed =>
                    /\ entries[k].duration = 15
                    /\ WrittenEntry(k).start <= Max(15 - clip_duration, 0)
                    /\ clip_duration >= 15 => WrittenEntry(k).start = 0
          /\ launches > 0 => Len(entries) = Len(videos))
    /\ [][pc = "probe" =>
            /\ pc' = "write"
            /\ exit' = "running"
            /\ idx' = idx
            /\ probe'.kind # "none"]_vars

\* With a clip length of 15 the first of two files failed its probe, was
\* written with start 0, and the second was written after it.
C2_Witness ==
    /\ clip_duration = 15
    /\ Len(entries) = 2
    /\ entries[1].failed
    /\ WrittenEntry(1).start = 0
    /\ launches = 1

\* The paths the directory holds as regular files with an allowed extension.
Discovered ==
    {EntryPath(args[2], e.name) :
        e \in {x \in listing :
                 /\ x.kind = "file"
                 /\ \E k \in 1..Len(video_extensions) :
                       /\ Len(x.name) > Len(video_extensions[k]) + 1
                       /\ SubSeq(x.name, Len(x.name) - Len(video_extensions[k]),
                                 Len(x.name)) = <<".">> \o video_extensions[k]}}

\* C3: a run over n >= 1 files that ends without a write failure leaves the
\* header and exactly n entry lines, whose paths are the discovered paths,
\* each once, and whose length fields are the clip length.
C3_PlaylistIsPermutation ==
    (pc = "done" /\ exit = "ok" /\ Len(videos) >= 1) =>
        /\ HoldsHeaderAnd(Len(videos))
        /\ {WrittenEntry(k).path : k \in 1..Len(videos)} = Range(videos)
        /\ Cardinality(Range(videos)) = Len(videos)
        /\ Range(videos) = Candidates
        /\ \A k \in 1..Len(videos) : WrittenEntry(k).length = clip_duration

\* C4: when discovery yields no candidate, the next step reports that no
\* videos were found and ends the run without error, and neither that step
\* nor anything before it opens or changes the output path, probes a file
\* or starts the player.
C4_EmptyCorpus ==
    /\ []("no_videos" \in log =>
            /\ pc = "done" /\ exit = "ok"
            /\ opens = 0 /\ probes = 0 /\ launches = 0
            /\ edl_file \in {NoFile, OldPlaylist})
    /\ [][(pc = "check_empty" /\ videos = <<>>) =>
            /\ "no_videos" \in log'
            /\ pc' = "done" /\ exit' = "ok"
            /\ edl_file' = edl_file
            /\ opens' = 0 /\ probes' = 0 /\ launches' = 0]_vars
    /\ [][opens' = 0 => edl_file' = edl_file]_vars

\* A directory that holds entries, none of them a candidate, was read, no
\* videos were reported and the playlist of an earlier run is still there.
C4_Witness ==
    /\ "no_videos" \in log
    /\ listing # {}
    /\ edl_file = OldPlaylist
    /\ pc = "done"

\* C5 as claimed: while a discovered file is still to be probed and sampled,
\* the output path holds what it held before the run.
C5_WrittenOnlyAtEnd ==
    (videos # <<>> /\ Len(entries) < Len(videos))
        => edl_file \in {NoFile, OldPlaylist}

\* C5 as amended: the output path is emptied and the header written before
\* the first probe, and each entry line is written right after its file is
\* probed and sampled: whenever the file at place idx is being probed or
\* sampled the output holds the header and the idx - 1 lines of the files
\* before it, in the shuffled order, and nothing of what it held before the
\* run; and nothing is written before the open.
C5_StreamedInOrder ==
    /\ pc \in {"probe", "write"} =>
          /\ idx \in 1..Len(videos)
          /\ HoldsHeaderAnd(idx - 1)
          /\ Len(entries) = idx - 1
          /\ \A k \in 1..(idx - 1) :
                WrittenEntry(k).path = to_string_lossy(videos[k])
          /\ probes = IF pc = "write" THEN idx ELSE idx - 1
    /\ pc = "header" => edl_file = [exists |-> TRUE, lines |-> <<>>] /\ probes = 0
    /\ pc = "launch" => HoldsHeaderAnd(Len(videos)) /\ probes = Len(videos)
    /\ opens = 0 => edl_file \in {NoFile, OldPlaylist}

\* The second of two files is about to be probed and the output, which held
\* an earlier playlist, already holds the header and the line of the first.
C5_Witness ==
    /\ pc = "probe"
    /\ idx = 2
    /\ Len(videos) = 2
    /\ Len(edl_file.lines) = 2
    /\ WrittenEntry(1).path = videos[1]

\* C7: for a directory that can be read, discovery ends without a panic and
\* the candidates are exactly the regular files with an allowed extension.
C7_DiscoveryTotal ==
    (ClipGiven /\ dir_readable /\ pc \notin {"args", "read_dir"}) =>
        /\ exit # "panic"
        /\ Range(videos) = Discovered

\* C8: unless the clip-length argument is there and is a positive integer,
\* the run ends before the directory is read and the output path touched;
\* every entry line has a length field of 1 or more.
C8_PositiveClipLength ==
    /\ ~(ClipGiven /\ ParseU64(args[3]).val >= 1) =>
          /\ pc \in {"args", "done"}
          /\ opens = 0
          /\ videos = <<>>
    /\ \A k \in 1..Len(entries) : WrittenEntry(k).length >= 1

\* C9: the player is started at most once, and only when the output holds
\* the header and the whole lines of all n files, n >= 1; it is not started
\* in a run that ended with an error or a panic, with the usage message or
\* with no videos found.
C9_LaunchAfterAllWritten ==
    /\ launches <= 1
    /\ (launches = 1 \/ pc = "launch") =>
          /\ Len(videos) >= 1
          /\ HoldsHeaderAnd(Len(videos))
          /\ Len(entries) = Len(videos)
          /\ exit \in {"running", "ok"}
    /\ exit \in {"err", "panic"} => launches = 0 /\ player = "none"
    /\ ("usage" \in log \/ "no_videos" \in log) => launches = 0
    /\ (pc = "done" /\ exit = "ok" /\ Len(videos) >= 1) => launches = 1

\* The player was started after the lines of two files were written.
C9_Witness ==
    /\ launches = 1
    /\ Len(videos) = 2
    /\ Len(edl_file.lines) = 3

\* C10: when the player cannot be started, the error is printed, main ends
\* without error, and the step that starts the player leaves the output file
\* as it was written.
C10_LaunchFailureKeepsPlaylist ==
    /\ [](player = "error" =>
            /\ "launch_error" \in log
            /\ pc = "done" /\ exit = "ok"
            /\ HoldsHeaderAnd(Len(videos)))
    /\ [][pc = "launch" => edl_file' = edl_file /\ exit' = "ok"]_vars

\* The player could not be started on a playlist of two lines.
C10_Witness ==
    /\ player = "error"
    /\ pc = "done"
    /\ Len(edl_file.lines) = 3

=============================================================================
